---- MODULE Spec2Model ----
(***************************************************************************)
(* The nutrition advisor of src/main.py: the dataset normalizer            *)
(* (load_and_preprocess_data), the BMI categorizer (categorize_bmi), the   *)
(* matcher (find_best_match: candidate filter, scorer, selector) and one   *)
(* run of main().                                                          *)
(*                                                                         *)
(* Representation.                                                         *)
(*   - A Python str is the sequence of its characters, so that strip and   *)
(*     upper are computed and not assumed.                                 *)
(*   - A DataFrame cell is NaN, Num(n) or Str(s).                          *)
(*   - A DataFrame is [columns |-> the column names in order,              *)
(*     data |-> name -> the column's cells]; row labels are 0..n-1.        *)
(*   - A column name is the sequence of its pieces, so that                *)
(*     'Consumption Rate' in col  and  col + '_Rank'  are computed.        *)
(*   - The physical measures of the dataset are held in halves (Num(41)    *)
(*     is 20.5), so that the median of an even count is exact; scores are  *)
(*     held in halves too (the weights 2, 1, 1.5 are 4, 2, 3); the user's  *)
(*     BMI is held in thousandths (18500 is 18.5).                         *)
(*   - Python's None is <<>>, a value x that may be None is <<x>>.         *)
(***************************************************************************)
EXTENDS Integers, Sequences, FiniteSets, TLC

VARIABLES
    file,          \* the dataset file: "present", "absent" or "unreadable"
    csv,           \* what pd.read_csv parses from the file when it is readable
    strict,        \* is_string_dtype refuses an object column holding NaN (pandas >= 2)
    df,            \* main's df / the normalizer's result
    renorm,        \* the normalizer applied to its own result
    pc,            \* the position in main()
    gender_options,\* the options of the gender selectbox
    user_inputs,   \* get_user_input's dict
    ranks,         \* the ranks find_best_match gave the user's selections
    candidates,    \* find_best_match's candidates, each with its row label
    scores,        \* find_best_match's scores, in halves
    best_match,    \* find_best_match's result
    shown,         \* what the run displayed
    bmi_category   \* categorize_bmi's result

vars == <<file, csv, strict, df, renorm, pc, gender_options, user_inputs, ranks,
          candidates, scores, best_match, shown, bmi_category>>

(***************************************************************************)
(* Bounds of the model.                                                    *)
(***************************************************************************)
MaxRows == 2

MaxNormRows == 3

MaxEdits == 1

BmiBelow == 5

BmiAbove == 65

(***************************************************************************)
(* Values.                                                                 *)
(***************************************************************************)
None == <<>>

Some(x) == <<x>>

NaN == [k |-> "nan"]

Num(n) == [k |-> "num", v |-> n]

Str(s) == [k |-> "str", v |-> s]

isna(c) == c.k = "nan"

Range(s) == {s[i] : i \in DOMAIN s}

Abs(x) == IF x < 0 THEN -x ELSE x

(***************************************************************************)
(* str.strip and str.upper.                                                *)
(***************************************************************************)
LowerCase == <<"a", "b", "c", "d", "e", "f", "g", "h", "i", "j", "k", "l", "m", "n", "o", "p", "q", "r", "s", "t", "u", "v", "w", "x", "y", "z">>

UpperCase == <<"A", "B", "C", "D", "E", "F", "G", "H", "I", "J", "K", "L", "M", "N", "O", "P", "Q", "R", "S", "T", "U", "V", "W", "X", "Y", "Z">>

upper_char(c) ==
    IF \E i \in DOMAIN LowerCase : LowerCase[i] = c
    THEN UpperCase[CHOOSE i \in DOMAIN LowerCase : LowerCase[i] = c]
    ELSE c

upper(s) == [i \in 1..Len(s) |-> upper_char(s[i])]

is_space(c) == c \in {" ", "\t"}

RECURSIVE lstrip(_)
lstrip(s) == IF s # <<>> /\ is_space(Head(s)) THEN lstrip(Tail(s)) ELSE s

RECURSIVE rstrip(_)
rstrip(s) ==
    IF s # <<>> /\ is_space(s[Len(s)]) THEN rstrip(SubSeq(s, 1, Len(s) - 1)) ELSE s

strip(s) == rstrip(lstrip(s))

\* Series.str.strip().str.upper(): a cell that is not a str comes out NaN.
str_strip_upper(col) ==
    [i \in 1..Len(col) |-> IF col[i].k = "str" THEN Str(upper(strip(col[i].v))) ELSE NaN]

(***************************************************************************)
(* The constants of main.py.                                               *)
(***************************************************************************)
NEVER == <<"N", "E", "V", "E", "R">>

RARELY == <<"R", "A", "R", "E", "L", "Y">>

OFTEN == <<"O", "F", "T", "E", "N">>

DAILY == <<"D", "A", "I", "L", "Y">>

LIGHT_ACTIVE == <<"L", "I", "G", "H", "T", " ", "A", "C", "T", "I", "V", "E">>

MODERATELY_ACTIVE == <<"M", "O", "D", "E", "R", "A", "T", "E", "L", "Y", " ", "A", "C", "T", "I", "V", "E">>

ACTIVE == <<"A", "C", "T", "I", "V", "E">>

VERY_ACTIVE == <<"V", "E", "R", "Y", " ", "A", "C", "T", "I", "V", "E">>

EATING_HABIT_RANKING == (NEVER :> 0) @@ (RARELY :> 1) @@ (OFTEN :> 2) @@ (DAILY :> 3)

ACTIVITY_RANKING ==
    (LIGHT_ACTIVE :> 0) @@ (MODERATELY_ACTIVE :> 1) @@ (ACTIVE :> 2) @@ (VERY_ACTIVE :> 3)

\* list(d.keys()): a dict keeps the order of its literal.
EATING_HABIT_KEYS == <<NEVER, RARELY, OFTEN, DAILY>>

ACTIVITY_KEYS == <<LIGHT_ACTIVE, MODERATELY_ACTIVE, ACTIVE, VERY_ACTIVE>>

UNDERWEIGHT == <<"U", "N", "D", "E", "R", "W", "E", "I", "G", "H", "T">>

NORMAL == <<"N", "O", "R", "M", "A", "L">>

OVERWEIGHT == <<"O", "V", "E", "R", "W", "E", "I", "G", "H", "T">>

OBESITY_CLASS_1 == <<"O", "B", "E", "S", "I", "T", "Y", " ", "(", "C", "L", "A", "S", "S", " ", "1", ")">>

OBESITY_CLASS_2 == <<"O", "B", "E", "S", "I", "T", "Y", " ", "(", "C", "L", "A", "S", "S", " ", "2", ")">>

SEVERE_MORBID_OBESITY == <<"S", "E", "V", "E", "R", "E", "/", "M", "O", "R", "B", "I", "D", " ", "O", "B", "E", "S", "I", "T", "Y">>

\* The column names.
Gender == <<"Gender">>

BMI_Category == <<"BMI Category">>

Physical_Activity_level == <<"Physical Activity level">>

Activity_Rank == <<"Activity_Rank">>

Rice == <<"Rice ", "Consumption Rate">>

Beans == <<"Beans ", "Consumption Rate">>

Soft_drinks == <<"Soft drinks ", "Consumption Rate">>

Snacks == <<"Snacks ", "Consumption Rate">>

Fruits == <<"Fruits ", "Consumption Rate">>

Vegetables == <<"Vegetables ", "Consumption Rate">>

NumericCols ==
    <<(<<"Age">>), (<<"Number of meals per day">>), (<<"Height in cm">>),
      (<<"Weight">>), (<<"BMI">>)>>

\* col + '_Rank'
RankCol(col) == Append(col, "_Rank")

\* 'Consumption Rate' in col
IsConsumptionCol(col) == \E i \in DOMAIN col : col[i] = "Consumption Rate"

(***************************************************************************)
(* The pandas operations the normalizer uses.                              *)
(***************************************************************************)
\* A column read_csv parsed as numbers: float64, which an empty column of a
\* file with rows is too; a file without rows gives object columns.
is_numeric_dtype(col) == Len(col) > 0 /\ \A i \in DOMAIN col : col[i].k # "str"

\* An object column; from pandas 2.0 on only when every element is a str.
is_string_dtype(col, strictDtype) ==
    IF strictDtype
    THEN \A i \in DOMAIN col : col[i].k = "str"
    ELSE Len(col) = 0 \/ \E i \in DOMAIN col : col[i].k = "str"

RECURSIVE insert_sorted(_, _)
insert_sorted(x, s) ==
    IF s = <<>> THEN <<x>>
    ELSE IF x <= Head(s) THEN <<x>> \o s
    ELSE <<Head(s)>> \o insert_sorted(x, Tail(s))

RECURSIVE sort_values(_)
sort_values(s) == IF s = <<>> THEN <<>> ELSE insert_sorted(Head(s), sort_values(Tail(s)))

RECURSIVE dropna(_)
dropna(col) ==
    IF col = <<>> THEN <<>>
    ELSE IF isna(Head(col)) THEN dropna(Tail(col))
    ELSE <<Head(col).v>> \o dropna(Tail(col))

\* Series.median(): over the values present; NaN when there is none.
median(col) ==
    LET s == sort_values(dropna(col))
        n == Len(s)
    IN  IF n = 0 THEN NaN
        ELSE IF n % 2 = 1 THEN Num(s[(n + 1) \div 2])
        ELSE Num((s[n \div 2] + s[n \div 2 + 1]) \div 2)

\* fillna left out.
fillna_skipped(col, value) == col

fillna(col, value) == [i \in 1..Len(col) |-> IF isna(col[i]) THEN value ELSE col[i]]

\* Series.map(dict): a value that is no key comes out NaN.
series_map(col, d) ==
    [i \in 1..Len(col) |->
        IF col[i].k = "str" /\ col[i].v \in DOMAIN d THEN Num(d[col[i].v]) ELSE NaN]

\* dict.get(key, default)
dict_get(d, key, default) ==
    IF key.k = "str" /\ key.v \in DOMAIN d THEN d[key.v] ELSE default

\* df[name] = col
set_column(t, name, col) ==
    [columns |-> IF name \in Range(t.columns) THEN t.columns ELSE Append(t.columns, name),
     data |-> (name :> col) @@ t.data]

nrows(t) == Len(t.data[t.columns[1]])

(***************************************************************************)
(* load_and_preprocess_data, lines 30-45.                                  *)
(***************************************************************************)
RECURSIVE fill_medians(_, _)
fill_medians(t, cols) ==
    IF cols = <<>> THEN t
    ELSE LET col == Head(cols)
         IN  IF col \in Range(t.columns) /\ is_numeric_dtype(t.data[col])
             THEN fill_medians(
                      set_column(t, col, fillna(t.data[col], median(t.data[col]))),
                      Tail(cols))
             ELSE fill_medians(t, Tail(cols))

RECURSIVE canonical_text(_, _, _)
canonical_text(t, cols, strictDtype) ==
    IF cols = <<>> THEN t
    ELSE LET col == Head(cols)
         IN  IF is_string_dtype(t.data[col], strictDtype)
             THEN canonical_text(set_column(t, col, str_strip_upper(t.data[col])),
                                 Tail(cols), strictDtype)
             ELSE canonical_text(t, Tail(cols), strictDtype)

consumption_cols(t) == SelectSeq(t.columns, IsConsumptionCol)

RECURSIVE add_consumption_ranks(_, _)
add_consumption_ranks(t, cols) ==
    IF cols = <<>> THEN t
    ELSE LET col == Head(cols)
         IN  add_consumption_ranks(
                 set_column(t, RankCol(col),
                            fillna(series_map(t.data[col], EATING_HABIT_RANKING), Num(0))),
                 Tail(cols))

add_activity_rank(t) ==
    IF Physical_Activity_level \in Range(t.columns)
    THEN set_column(t, Activity_Rank,
                    fillna(series_map(t.data[Physical_Activity_level], ACTIVITY_RANKING),
                           Num(0)))
    ELSE t

Preprocess(raw, strictDtype) ==
    LET filled == fill_medians(raw, NumericCols)
        text == canonical_text(filled, filled.columns, strictDtype)
    IN  add_activity_rank(add_consumption_ranks(text, consumption_cols(text)))

(***************************************************************************)
(* categorize_bmi; bmi in thousandths.                                     *)
(***************************************************************************)
\* The first boundary closed on the wrong side.
categorize_bmi_closed(bmi) ==
    IF bmi <= 18500 THEN UNDERWEIGHT
    ELSE IF bmi < 25000 THEN NORMAL
    ELSE IF bmi < 30000 THEN OVERWEIGHT
    ELSE IF bmi < 35000 THEN OBESITY_CLASS_1
    ELSE IF bmi < 40000 THEN OBESITY_CLASS_2
    ELSE SEVERE_MORBID_OBESITY

categorize_bmi(bmi) ==
    IF bmi < 18500 THEN UNDERWEIGHT
    ELSE IF 18500 <= bmi /\ bmi < 25000 THEN NORMAL
    ELSE IF 25000 <= bmi /\ bmi < 30000 THEN OVERWEIGHT
    ELSE IF 30000 <= bmi /\ bmi < 35000 THEN OBESITY_CLASS_1
    ELSE IF 35000 <= bmi /\ bmi < 40000 THEN OBESITY_CLASS_2
    ELSE SEVERE_MORBID_OBESITY

(***************************************************************************)
(* The dataset files of the model: every sequence of at most MaxRows rows  *)
(* drawn from four rows.  RowA and RowB are the same gender and category   *)
(* (RowB's text is not canonical), RowD is another gender and holds the    *)
(* missing and unknown values, RowE is another category.  The measures in  *)
(* the file are whole numbers (even numbers of halves).                    *)
(***************************************************************************)
RawColumns ==
    <<(<<"Age">>), Gender, (<<"Height in cm">>), (<<"Weight">>), (<<"BMI">>), BMI_Category,
      Physical_Activity_level, (<<"Number of meals per day">>),
      Rice, Beans, Soft_drinks, Snacks, Fruits, Vegetables>>

\* A row of the file: its cells in the order of RawColumns.
Row(cells) ==
    [c \in Range(RawColumns) |-> cells[CHOOSE i \in DOMAIN RawColumns : RawColumns[i] = c]]

RowA ==
    Row(<<Num(40), Str(<<"F", "E", "M", "A", "L", "E">>), Num(320), Num(140), Num(54), Str(OVERWEIGHT),
        Str(LIGHT_ACTIVE), Num(6),
        Str(OFTEN), Str(RARELY), Str(RARELY), Str(NEVER), Str(OFTEN), Str(OFTEN)>>)

RowB ==
    Row(<<NaN, Str(<<" ", "f", "e", "m", "a", "l", "e">>), Num(316), Num(142), Num(56), Str(<<"O", "v", "e", "r", "w", "e", "i", "g", "h", "t", " ">>),
        Str(<<"l", "i", "g", "h", "t", " ", "a", "c", "t", "i", "v", "e">>), NaN,
        Str(<<"o", "f", "t", "e", "n">>), Str(<<"r", "a", "r", "e", "l", "y", " ">>), Str(<<"O", "f", "t", "e", "n">>), Str(<<"R", "a", "r", "e", "l", "y">>), Str(OFTEN), Str(OFTEN)>>)

RowD ==
    Row(<<Num(62), Str(<<"M", "A", "L", "E">>), NaN, Num(180), NaN, Str(OVERWEIGHT),
        NaN, NaN,
        Str(<<"D", "a", "i", "l", "y">>), Str(NEVER), Str(<<"S", "O", "M", "E", "T", "I", "M", "E", "S">>), NaN, Str(DAILY), Str(<<"n", "e", "v", "e", "r">>)>>)

RowE ==
    Row(<<NaN, Str(<<"F", "E", "M", "A", "L", "E">>), Num(340), Num(110), Num(38), Str(<<"N", "o", "r", "m", "a", "l">>),
        Str(<<"V", "e", "r", "y", " ", "A", "c", "t", "i", "v", "e">>), Num(4),
        Str(OFTEN), Str(OFTEN), Str(NEVER), Str(NEVER), Str(DAILY), Str(DAILY)>>)

RowPool == {RowA, RowB, RowD, RowE}

MakeTable(rs) ==
    [columns |-> RawColumns,
     data |-> [c \in Range(RawColumns) |-> [i \in 1..Len(rs) |-> rs[i][c]]]]

TablesUpTo(n) == {MakeTable(rs) : rs \in UNION {[1..m -> RowPool] : m \in 0..n}}

(***************************************************************************)
(* get_user_input: the sidebar widgets and their initial values.           *)
(***************************************************************************)
RECURSIVE unique(_)
unique(col) ==
    IF col = <<>> THEN <<>>
    ELSE LET rest == unique(SubSeq(col, 1, Len(col) - 1))
             last == col[Len(col)]
         IN  IF last \in Range(rest) THEN rest ELSE Append(rest, last)

\* A selectbox without options returns None.
GenderOptions(d) == unique(d.data[Gender])

\* Lines 72, 74 and 79-84: number_input's value, and each selectbox's index
\* (0 when none is given).
FixedDefaults ==
    [bmi |-> 25000,
     activity |-> Str(ACTIVITY_KEYS[1]),
     rice |-> Str(EATING_HABIT_KEYS[3]),
     beans |-> Str(EATING_HABIT_KEYS[2]),
     soft_drinks |-> Str(EATING_HABIT_KEYS[2]),
     snacks |-> Str(EATING_HABIT_KEYS[2]),
     fruits |-> Str(EATING_HABIT_KEYS[3]),
     veg |-> Str(EATING_HABIT_KEYS[3])]

\* Line 73: the first of the options.
GenderDefault(options) == IF options = <<>> THEN NaN ELSE options[1]

WidgetDefaults(d) == [gender |-> GenderDefault(GenderOptions(d))] @@ FixedDefaults

\* The BMI values entered: 18.5, 25.0 and 40.0, inside number_input's 10.0 .. 60.0.
BmiInputs == {18500, 25000, 40000}

\* A selection that is no option of the selectbox, as a caller of find_best_match
\* other than the sidebar may pass: a str that is no key, or None.
OtherSelections == {Str(<<"d", "a", "i", "l", "y">>), NaN}

FoodSelections == {Str(k) : k \in Range(EATING_HABIT_KEYS)} \cup OtherSelections

ActivitySelections == {Str(k) : k \in Range(ACTIVITY_KEYS)} \cup OtherSelections

FieldValues ==
    [bmi |-> BmiInputs,
     activity |-> ActivitySelections,
     rice |-> FoodSelections,
     beans |-> FoodSelections,
     soft_drinks |-> FoodSelections,
     snacks |-> FoodSelections,
     fruits |-> FoodSelections,
     veg |-> FoodSelections]

\* The number of widgets off their initial value.
EditCount(ui, options) ==
    Cardinality({f \in DOMAIN FixedDefaults : ui[f] # FixedDefaults[f]})
    + (IF ui.gender # GenderDefault(options) THEN 1 ELSE 0)

(***************************************************************************)
(* find_best_match.                                                        *)
(***************************************************************************)
\* ==  between two cells: NaN equals nothing.
cell_eq(a, b) == a.k = "str" /\ b.k = "str" /\ a.v = b.v

rows_of(d) ==
    [i \in 1..nrows(d) |->
        [label |-> i - 1, row |-> [c \in Range(d.columns) |-> d.data[c][i]]]]

\* | in place of &.
row_mask_either(r, gender, category) ==
    cell_eq(r.row[Gender], gender) \/ cell_eq(r.row[BMI_Category], Str(category))

row_mask(r, gender, category) ==
    cell_eq(r.row[Gender], gender) /\ cell_eq(r.row[BMI_Category], Str(category))

\* The search widened to the gender alone when nothing matches both.
filter_candidates_widened(d, gender, category) ==
    LET both == SelectSeq(rows_of(d), LAMBDA r : row_mask(r, gender, category))
    IN  IF both # <<>> THEN both
        ELSE SelectSeq(rows_of(d), LAMBDA r : cell_eq(r.row[Gender], gender))

filter_candidates(d, gender, category) ==
    SelectSeq(rows_of(d), LAMBDA r : row_mask(r, gender, category))

user_ranks(ui) ==
    [activity |-> dict_get(ACTIVITY_RANKING, ui.activity, 0),
     rice |-> dict_get(EATING_HABIT_RANKING, ui.rice, 0),
     beans |-> dict_get(EATING_HABIT_RANKING, ui.beans, 0),
     soft_drinks |-> dict_get(EATING_HABIT_RANKING, ui.soft_drinks, 0),
     snacks |-> dict_get(EATING_HABIT_RANKING, ui.snacks, 0),
     fruits |-> dict_get(EATING_HABIT_RANKING, ui.fruits, 0),
     veg |-> dict_get(EATING_HABIT_RANKING, ui.veg, 0)]

\* The snacks term without its weight of 1.5.
score_row_snacks_unweighted(row, ur) ==
    Abs(row[Activity_Rank].v - ur.activity) * 4
    + Abs(row[RankCol(Rice)].v - ur.rice) * 2
    + Abs(row[RankCol(Beans)].v - ur.beans) * 2
    + Abs(row[RankCol(Soft_drinks)].v - ur.soft_drinks) * 3
    + Abs(row[RankCol(Snacks)].v - ur.snacks) * 2
    + Abs(row[RankCol(Fruits)].v - ur.fruits) * 2
    + Abs(row[RankCol(Vegetables)].v - ur.veg) * 2

\* Lines 110-116, in halves.
score_row(row, ur) ==
    LET s1 == Abs(row[Activity_Rank].v - ur.activity) * 4
        s2 == s1 + Abs(row[RankCol(Rice)].v - ur.rice) * 2
        s3 == s2 + Abs(row[RankCol(Beans)].v - ur.beans) * 2
        s4 == s3 + Abs(row[RankCol(Soft_drinks)].v - ur.soft_drinks) * 3
        s5 == s4 + Abs(row[RankCol(Snacks)].v - ur.snacks) * 3
        s6 == s5 + Abs(row[RankCol(Fruits)].v - ur.fruits) * 2
    IN  s6 + Abs(row[RankCol(Vegetables)].v - ur.veg) * 2

\* np.argmin: one pass that keeps the first of the smallest; positions from 1.
RECURSIVE argmin_from(_, _, _)
argmin_from(s, i, best) ==
    IF i > Len(s) THEN best
    ELSE IF s[i] < s[best] THEN argmin_from(s, i + 1, i)
    ELSE argmin_from(s, i + 1, best)

\* The last of the smallest in place of the first.
RECURSIVE argmin_last_from(_, _, _)
argmin_last_from(s, i, best) ==
    IF i > Len(s) THEN best
    ELSE IF s[i] <= s[best] THEN argmin_last_from(s, i + 1, i)
    ELSE argmin_last_from(s, i + 1, best)

argmin_last(s) == argmin_last_from(s, 2, 1)

argmin(s) == argmin_from(s, 2, 1)

find_best_match(d, ui) ==
    LET user_bmi_category == categorize_bmi(ui.bmi)
        ur == user_ranks(ui)
        cands == filter_candidates(d, ui.gender, user_bmi_category)
        sc == [i \in 1..Len(cands) |-> score_row(cands[i].row, ur)]
    IN  [category |-> user_bmi_category,
         ranks |-> ur,
         candidates |-> cands,
         scores |-> IF cands = <<>> THEN <<>> ELSE sc,
         result |-> IF cands = <<>> THEN None ELSE Some(cands[argmin(sc)])]

\* display_results: the error of lines 134-136, or the advice.
display_results(match) == IF match = None THEN "no_match" ELSE "advice"

(***************************************************************************)
(* One run of main().                                                      *)
(***************************************************************************)
Idle ==
    /\ df = None /\ renorm = None /\ gender_options = <<>> /\ user_inputs = None
    /\ ranks = None /\ candidates = <<>> /\ scores = <<>> /\ best_match = None
    /\ shown = "nothing" /\ bmi_category = None

Init ==
    /\ \/ file = "present" /\ csv \in {Some(t) : t \in TablesUpTo(MaxRows)}
       \/ file \in {"absent", "unreadable"} /\ csv = None
    /\ strict \in BOOLEAN
    /\ pc = "start"
    /\ Idle

\* Line 170: read_csv raises FileNotFoundError, which line 46 turns into None;
\* any other error of read_csv leaves the function and main.
Load ==
    /\ pc = "start"
    /\ \/ file = "present" /\ df' = Some(Preprocess(csv[1], strict)) /\ pc' = "loaded"
       \/ file = "absent" /\ df' = None /\ pc' = "loaded"
       \/ file = "unreadable" /\ df' = None /\ pc' = "crashed"
    /\ UNCHANGED <<file, csv, strict, renorm, gender_options, user_inputs, ranks,
                   candidates, scores, best_match, shown, bmi_category>>

\* Lines 172-174.
DatasetMissing ==
    /\ pc = "loaded" /\ df = None
    /\ shown' = "file_not_found"
    /\ pc' = "done"
    /\ UNCHANGED <<file, csv, strict, df, renorm, gender_options, user_inputs, ranks,
                   candidates, scores, best_match, bmi_category>>

\* Line 176, the widgets at their initial values.
GetInput ==
    /\ pc = "loaded" /\ df # None
    /\ gender_options' = GenderOptions(df[1])
    /\ user_inputs' = Some(WidgetDefaults(df[1]))
    /\ pc' = "input"
    /\ UNCHANGED <<file, csv, strict, df, renorm, ranks, candidates, scores, best_match,
                   shown, bmi_category>>

\* The user changes one widget; at most MaxEdits widgets are off their initial value.
Select ==
    /\ pc = "input"
    /\ \/ \E f \in DOMAIN FieldValues : \E v \in FieldValues[f] :
             /\ v # user_inputs[1][f]
             /\ EditCount([user_inputs[1] EXCEPT ![f] = v], gender_options) <= MaxEdits
             /\ user_inputs' = Some([user_inputs[1] EXCEPT ![f] = v])
       \/ \E v \in Range(gender_options) :
             /\ v # user_inputs[1].gender
             /\ EditCount([user_inputs[1] EXCEPT !.gender = v], gender_options) <= MaxEdits
             /\ user_inputs' = Some([user_inputs[1] EXCEPT !.gender = v])
    /\ UNCHANGED <<file, csv, strict, df, renorm, pc, gender_options, ranks, candidates,
                   scores, best_match, shown, bmi_category>>

\* Lines 178-182 with the button pressed.
GetAdvice ==
    /\ pc = "input"
    /\ LET m == find_best_match(df[1], user_inputs[1])
       IN  /\ bmi_category' = Some(m.category)
           /\ ranks' = Some(m.ranks)
           /\ candidates' = m.candidates
           /\ scores' = m.scores
           /\ best_match' = m.result
           /\ shown' = display_results(m.result)
    /\ pc' = "done"
    /\ UNCHANGED <<file, csv, strict, df, renorm, gender_options, user_inputs>>

\* Lines 178-182 with the button not pressed.
NoAdvice ==
    /\ pc = "input"
    /\ pc' = "done"
    /\ UNCHANGED <<file, csv, strict, df, renorm, gender_options, user_inputs, ranks,
                   candidates, scores, best_match, shown, bmi_category>>

Next == Load \/ DatasetMissing \/ GetInput \/ Select \/ GetAdvice \/ NoAdvice

Spec == Init /\ [][Next]_vars

(***************************************************************************)
(* The normalizer alone, and applied to its own result.                    *)
(***************************************************************************)
InitNorm ==
    /\ file = "present"
    /\ csv \in {Some(t) : t \in TablesUpTo(MaxNormRows)}
    /\ strict \in BOOLEAN
    /\ pc = "normalize"
    /\ Idle

Normalize ==
    /\ pc = "normalize"
    /\ df' = Some(Preprocess(csv[1], strict))
    /\ pc' = "renormalize"
    /\ UNCHANGED <<file, csv, strict, renorm, gender_options, user_inputs, ranks,
                   candidates, scores, best_match, shown, bmi_category>>

Renormalize ==
    /\ pc = "renormalize"
    /\ renorm' = Some(Preprocess(df[1], strict))
    /\ pc' = "done"
    /\ UNCHANGED <<file, csv, strict, df, gender_options, user_inputs, ranks,
                   candidates, scores, best_match, shown, bmi_category>>

NextNorm == Normalize \/ Renormalize

SpecNorm == InitNorm /\ [][NextNorm]_vars

(***************************************************************************)
(* categorize_bmi alone, over every thousandth from -BmiBelow to BmiAbove. *)
(***************************************************************************)
InitBmi ==
    /\ file = "absent" /\ csv = None /\ strict = FALSE
    /\ df = None /\ renorm = None /\ gender_options = <<>> /\ ranks = None
    /\ candidates = <<>> /\ scores = <<>> /\ best_match = None
    /\ shown = "nothing" /\ bmi_category = None
    /\ pc = "categorize"
    /\ user_inputs \in {Some([bmi |-> b]) : b \in (0 - BmiBelow * 1000)..(BmiAbove * 1000)}

Categorize ==
    /\ pc = "categorize"
    /\ bmi_category' = Some(categorize_bmi(user_inputs[1].bmi))
    /\ pc' = "done"
    /\ UNCHANGED <<file, csv, strict, df, renorm, gender_options, user_inputs, ranks,
                   candidates, scores, best_match, shown>>

NextBmi == Categorize

SpecBmi == InitBmi /\ [][NextBmi]_vars

(***************************************************************************)
(* The claims.  They are stated from the dataset and the user's inputs,    *)
(* with the tables and thresholds written out, not through the operators   *)
(* above.                                                                  *)
(***************************************************************************)
\* The button was pressed and find_best_match has returned.
Asked == pc = "done" /\ shown \in {"advice", "no_match"}

RowAt(d, i) == [c \in Range(d.columns) |-> d.data[c][i]]

CategoryOf(b) ==
    CASE b < 18500 -> UNDERWEIGHT
      [] b >= 18500 /\ b < 25000 -> NORMAL
      [] b >= 25000 /\ b < 30000 -> OVERWEIGHT
      [] b >= 30000 /\ b < 35000 -> OBESITY_CLASS_1
      [] b >= 35000 /\ b < 40000 -> OBESITY_CLASS_2
      [] b >= 40000 -> SEVERE_MORBID_OBESITY

FoodRank(cell) ==
    CASE cell = Str(NEVER) -> 0
      [] cell = Str(RARELY) -> 1
      [] cell = Str(OFTEN) -> 2
      [] cell = Str(DAILY) -> 3
      [] OTHER -> 0

ActivityRank(cell) ==
    CASE cell = Str(LIGHT_ACTIVE) -> 0
      [] cell = Str(MODERATELY_ACTIVE) -> 1
      [] cell = Str(ACTIVE) -> 2
      [] cell = Str(VERY_ACTIVE) -> 3
      [] OTHER -> 0

SameGender(d, i, ui) ==
    /\ d.data[Gender][i].k = "str" /\ ui.gender.k = "str"
    /\ d.data[Gender][i].v = ui.gender.v

SameCategory(d, i, ui) == d.data[BMI_Category][i] = Str(CategoryOf(ui.bmi))

\* The positions (from 1) of the records with the user's gender and BMI category.
Matching(d, ui) == {i \in 1..nrows(d) : SameGender(d, i, ui) /\ SameCategory(d, i, ui)}

\* The seven absolute rank differences of record i, and the score in halves.
Diffs(d, i, ui) ==
    [activity |-> Abs(d.data[Activity_Rank][i].v - ActivityRank(ui.activity)),
     rice |-> Abs(d.data[RankCol(Rice)][i].v - FoodRank(ui.rice)),
     beans |-> Abs(d.data[RankCol(Beans)][i].v - FoodRank(ui.beans)),
     soft_drinks |-> Abs(d.data[RankCol(Soft_drinks)][i].v - FoodRank(ui.soft_drinks)),
     snacks |-> Abs(d.data[RankCol(Snacks)][i].v - FoodRank(ui.snacks)),
     fruits |-> Abs(d.data[RankCol(Fruits)][i].v - FoodRank(ui.fruits)),
     veg |-> Abs(d.data[RankCol(Vegetables)][i].v - FoodRank(ui.veg))]

Weighted(x) ==
    4 * x.activity + 2 * x.rice + 2 * x.beans + 3 * x.soft_drinks + 3 * x.snacks
    + 2 * x.fruits + 2 * x.veg

ScoreOf(d, i, ui) == Weighted(Diffs(d, i, ui))

\* C1: whenever some record has the user's gender and BMI category,
\* find_best_match returns such a record whose score is the least among them,
\* and of the records with that least score the one that comes first in the
\* dataset.
C1_FirstMinimum ==
    (Asked /\ Matching(df[1], user_inputs[1]) # {}) =>
        /\ best_match # None
        /\ LET d == df[1]
               ui == user_inputs[1]
               i == best_match[1].label + 1
           IN  /\ i \in Matching(d, ui)
               /\ best_match[1].row = RowAt(d, i)
               /\ \A j \in Matching(d, ui) : ScoreOf(d, i, ui) <= ScoreOf(d, j, ui)
               /\ \A j \in Matching(d, ui) : j < i => ScoreOf(d, j, ui) > ScoreOf(d, i, ui)

\* Two different candidates share the least score, and the first is returned.
C1_Witness ==
    /\ Asked
    /\ Len(scores) = 2
    /\ scores[1] = scores[2]
    /\ candidates[1].row # candidates[2].row
    /\ best_match = Some(candidates[1])

\* C2: the candidates are exactly the records whose gender is the user's and
\* whose BMI category is the user's, in dataset order, and the filter applied
\* again to the same dataset, gender and category gives the same sequence.
C2_FilterConjunction ==
    Asked =>
        LET d == df[1]
            ui == user_inputs[1]
        IN  /\ {candidates[k].label + 1 : k \in DOMAIN candidates} = Matching(d, ui)
            /\ \A k \in DOMAIN candidates :
                  candidates[k].row = RowAt(d, candidates[k].label + 1)
            /\ \A k, l \in DOMAIN candidates :
                  k < l => candidates[k].label < candidates[l].label
            /\ filter_candidates(d, ui.gender, CategoryOf(ui.bmi)) = candidates

\* One record matches both, another the gender alone.
C2_Witness ==
    /\ Asked
    /\ Len(candidates) = 1
    /\ \E i \in 1..nrows(df[1]) :
          SameGender(df[1], i, user_inputs[1]) /\ ~SameCategory(df[1], i, user_inputs[1])

\* C3: every score is the weighted sum 2|activity| + |rice| + |beans| +
\* 1.5|soft drinks| + 1.5|snacks| + |fruits| + |vegetables| of the absolute rank
\* differences (here in halves), is not negative, is 0 exactly when the seven
\* ranks agree, and does not decrease when one absolute difference grows.
C3_Score ==
    Asked =>
        /\ Len(scores) = Len(candidates)
        /\ \A k \in DOMAIN candidates :
              LET d == df[1]
                  i == candidates[k].label + 1
                  x == Diffs(d, i, user_inputs[1])
              IN  /\ scores[k] = Weighted(x)
                  /\ scores[k] >= 0
                  /\ scores[k] = 0 <=> \A f \in DOMAIN x : x[f] = 0
                  /\ \A f \in DOMAIN x : \A r \in 0..3 :
                        LET ur == [ranks[1] EXCEPT ![f] = r]
                            c == IF f = "activity" THEN d.data[Activity_Rank][i].v
                                 ELSE IF f = "rice" THEN d.data[RankCol(Rice)][i].v
                                 ELSE IF f = "beans" THEN d.data[RankCol(Beans)][i].v
                                 ELSE IF f = "soft_drinks"
                                      THEN d.data[RankCol(Soft_drinks)][i].v
                                 ELSE IF f = "snacks" THEN d.data[RankCol(Snacks)][i].v
                                 ELSE IF f = "fruits" THEN d.data[RankCol(Fruits)][i].v
                                 ELSE d.data[RankCol(Vegetables)][i].v
                        IN  Abs(c - r) >= x[f] =>
                                score_row(candidates[k].row, ur) >= scores[k]

\* One candidate agrees in every rank and scores 0, the other differs by one in
\* soft drinks and in snacks and scores 3.0.
C3_Witness ==
    /\ Asked
    /\ \E k \in DOMAIN scores : scores[k] = 0
    /\ \E k \in DOMAIN scores : scores[k] = 6

\* C4: categorize_bmi gives every BMI exactly one of the six categories, by
\* half-open intervals whose lower boundary belongs to them: below 18.5,
\* [18.5, 25), [25, 30), [30, 35), [35, 40), and 40 or more; negative values
\* and values outside [10, 60] included.
C4_Categorize ==
    bmi_category # None =>
        LET b == user_inputs[1].bmi
            c == bmi_category[1]
        IN  /\ c \in {UNDERWEIGHT, NORMAL, OVERWEIGHT, OBESITY_CLASS_1, OBESITY_CLASS_2,
                      SEVERE_MORBID_OBESITY}
            /\ c = UNDERWEIGHT <=> b < 18500
            /\ c = NORMAL <=> (18500 <= b /\ b < 25000)
            /\ c = OVERWEIGHT <=> (25000 <= b /\ b < 30000)
            /\ c = OBESITY_CLASS_1 <=> (30000 <= b /\ b < 35000)
            /\ c = OBESITY_CLASS_2 <=> (35000 <= b /\ b < 40000)
            /\ c = SEVERE_MORBID_OBESITY <=> b >= 40000

\* The boundary 18.5 itself.
C4_Witness == bmi_category = Some(NORMAL) /\ user_inputs[1].bmi = 18500

\* C5: every rank the normalizer derives, and every rank find_best_match gives
\* a selection of the user, is the value of the mapping for a recognized level
\* and 0 for anything else, a missing value included; it is an integer of 0..3,
\* and ranking raises nothing.
C5_RanksTotal ==
    /\ file = "present" => pc # "crashed"
    /\ df # None =>
          LET d == df[1]
          IN  \A i \in 1..nrows(d) :
                 /\ d.data[Activity_Rank][i]
                       = Num(ActivityRank(d.data[Physical_Activity_level][i]))
                 /\ d.data[Activity_Rank][i].v \in 0..3
                 /\ \A c \in {Rice, Beans, Soft_drinks, Snacks, Fruits, Vegetables} :
                       /\ d.data[RankCol(c)][i] = Num(FoodRank(d.data[c][i]))
                       /\ d.data[RankCol(c)][i].v \in 0..3
    /\ Asked =>
          LET ui == user_inputs[1]
          IN  /\ ranks[1] = [activity |-> ActivityRank(ui.activity),
                             rice |-> FoodRank(ui.rice),
                             beans |-> FoodRank(ui.beans),
                             soft_drinks |-> FoodRank(ui.soft_drinks),
                             snacks |-> FoodRank(ui.snacks),
                             fruits |-> FoodRank(ui.fruits),
                             veg |-> FoodRank(ui.veg)]
              /\ \A f \in DOMAIN ranks[1] : ranks[1][f] \in 0..3

\* The dataset holds an unknown level and a missing one, and the user's rice
\* selection is no key.
C5_Witness ==
    /\ Asked
    /\ user_inputs[1].rice \in OtherSelections
    /\ ranks[1].rice = 0
    /\ \E i \in 1..nrows(df[1]) :
          /\ df[1].data[Soft_drinks][i] = Str(<<"S", "O", "M", "E", "T", "I", "M", "E", "S">>)
          /\ df[1].data[RankCol(Soft_drinks)][i] = Num(0)
          /\ isna(df[1].data[Snacks][i])
          /\ df[1].data[RankCol(Snacks)][i] = Num(0)

\* C6: when no record has both the user's gender and the user's BMI category,
\* find_best_match returns None, the run ends with the no-match message, and
\* neither a record of the gender alone nor one of the category alone is used.
C6_NoMatch ==
    (Asked /\ Matching(df[1], user_inputs[1]) = {}) =>
        /\ best_match = None
        /\ candidates = <<>>
        /\ shown = "no_match"

\* Nothing matches both, one record matches the gender and one the category.
C6_Witness ==
    /\ Asked
    /\ Matching(df[1], user_inputs[1]) = {}
    /\ \E i \in 1..nrows(df[1]) : SameGender(df[1], i, user_inputs[1])
    /\ \E i \in 1..nrows(df[1]) : SameCategory(df[1], i, user_inputs[1])
    /\ best_match = None

\* C7: when the dataset file is missing or unreadable, the load gives None and
\* no exception leaves it, the run shows the file-not-found message, collects no
\* input and asks for no match.
C7_DataUnavailable ==
    (pc # "start" /\ file \in {"absent", "unreadable"}) =>
        /\ pc # "crashed"
        /\ df = None
        /\ user_inputs = None /\ ranks = None /\ best_match = None
        /\ pc = "done" => shown = "file_not_found"

\* C9: the normalizer applied to a normalized dataset gives the same dataset:
\* the same columns, the same cells, the same number and order of records.
C9_Idempotent == renorm # None => renorm = df

\* What the second pass does instead: it keeps every column and cell of the
\* normalized dataset and appends, for each consumption column, a column
\* '<name>_Rank_Rank' of zeros, because '<name>_Rank' contains 'Consumption Rate'.
Renormalize_AppendsRankColumns ==
    renorm # None =>
        /\ SubSeq(renorm[1].columns, 1, Len(df[1].columns)) = df[1].columns
        /\ \A c \in Range(df[1].columns) : renorm[1].data[c] = df[1].data[c]
        /\ Range(renorm[1].columns) \ Range(df[1].columns)
              = {RankCol(RankCol(c)) :
                    c \in {Rice, Beans, Soft_drinks, Snacks, Fruits, Vegetables}}
        /\ \A c \in Range(renorm[1].columns) \ Range(df[1].columns) :
              \A i \in DOMAIN renorm[1].data[c] : renorm[1].data[c][i] = Num(0)

\* The k-th smallest of the values present in a column of the file.
KthPresent(col, k) ==
    LET present == {j \in DOMAIN col : ~isna(col[j])}
    IN  CHOOSE v \in {col[j].v : j \in present} :
            /\ Cardinality({j \in present : col[j].v < v}) < k
            /\ Cardinality({j \in present : col[j].v <= v}) >= k

\* C10: after normalization no cell of the five physical measures is missing:
\* a missing cell holds the median of the values its column had in the file,
\* and a cell that was present is unchanged.
C10_MedianFilled ==
    (df # None /\ file = "present") =>
        \A c \in Range(NumericCols) : \A i \in 1..nrows(csv[1]) :
            LET col == csv[1].data[c]
                n == Cardinality({j \in DOMAIN col : ~isna(col[j])})
            IN  /\ ~isna(df[1].data[c][i])
                /\ ~isna(col[i]) => df[1].data[c][i] = col[i]
                /\ (isna(col[i]) /\ n > 0) =>
                      df[1].data[c][i].v * 2
                         = KthPresent(col, (n + 1) \div 2) + KthPresent(col, n \div 2 + 1)

\* What the normalizer does instead: a column that holds no value at all stays
\* missing (its median is NaN); every other column is filled as C10 states.
Median_FilledWhenAnyPresent ==
    (df # None /\ file = "present") =>
        \A c \in Range(NumericCols) : \A i \in 1..nrows(csv[1]) :
            LET col == csv[1].data[c]
                n == Cardinality({j \in DOMAIN col : ~isna(col[j])})
            IN  /\ isna(df[1].data[c][i]) <=> n = 0
                /\ ~isna(col[i]) => df[1].data[c][i] = col[i]
                /\ (isna(col[i]) /\ n > 0) =>
                      df[1].data[c][i].v * 2
                         = KthPresent(col, (n + 1) \div 2) + KthPresent(col, n \div 2 + 1)

====
